---- MODULE Spec2Model ----
(***************************************************************************)
(* Model of drivers/input/joystick/joycon.c, the Joy-Con serial gamepad    *)
(* driver: the per-connection session (struct joycon), the three delayed   *)
(* works (timeout_handler, input_handler, sync_handler), the receive       *)
(* callback with its frame decoder, and probe/remove.                      *)
(*                                                                         *)
(* Handlers that run concurrently with other contexts are split at the     *)
(* source lines where they read or write shared memory; a program counter  *)
(* per handler names the line that runs next.                              *)
(***************************************************************************)
EXTENDS Integers, Sequences, FiniteSets, TLC

(***************************************************************************)
(* Bounds of the model.                                                    *)
(***************************************************************************)
\* InputReports counted per session before the device falls silent.
MaxSamples == 2
\* Largest garbage start value of the uninitialised index j (line 327).
MaxJStart == 1

\* The serial connections the host may register (two controller halves).
Serdevs == {1, 2}

(***************************************************************************)
(* Integer arithmetic of the C code.                                       *)
(***************************************************************************)
RECURSIVE BitAnd(_, _)
BitAnd(a, b) ==
    IF a = 0 \/ b = 0 THEN 0
    ELSE (a % 2) * (b % 2) + 2 * BitAnd(a \div 2, b \div 2)

RECURSIVE BitOr(_, _)
BitOr(a, b) ==
    IF a = 0 THEN b
    ELSE IF b = 0 THEN a
    ELSE (IF a % 2 = 1 \/ b % 2 = 1 THEN 1 ELSE 0) + 2 * BitOr(a \div 2, b \div 2)

\* a & ~b on a u32: the bits of a that are not bits of b
BitAndNot(a, b) == a - BitAnd(a, b)

RECURSIVE Pow2(_)
Pow2(n) == IF n = 0 THEN 1 ELSE 2 * Pow2(n - 1)

Shl(x, n) == x * Pow2(n)
Shr(x, n) == x \div Pow2(n)
BIT(n) == Pow2(n)

(***************************************************************************)
(* Constants of the driver.                                                *)
(***************************************************************************)
magic_start       == <<161, 162, 163, 164>>
handshake_start   == <<25, 1, 3, 7, 0, 165, 2, 1, 126, 0, 0, 0>>
get_mac           == <<25, 1, 3, 7, 0, 145, 1, 0, 0, 0, 0, 36>>
switch_baud       == <<25, 1, 3, 15, 0, 145, 32, 8, 0, 0, 189, 177, 192, 198, 45, 0, 0, 0, 0, 0>>
controller_status == <<25, 1, 3, 8, 0, 146, 0, 1, 0, 0, 105, 45, 31>>
unk_1             == <<25, 1, 3, 7, 0, 145, 17, 0, 0, 0, 0, 14>>
unk_2             == <<25, 1, 3, 7, 0, 145, 16, 0, 0, 0, 0, 61>>
unk_3             == <<25, 1, 3, 11, 0, 145, 18, 4, 0, 0, 18, 166, 15, 0, 0, 0>>

JOYCON_COMMAND_EXTSEND   == 145
JOYCON_COMMAND_EXTRET    == 146
JOYCON_COMMAND_INITRET   == 148
JOYCON_COMMAND_HANDSHAKE == 165

JOYCON_INIT_MAC      == 1
JOYCON_INIT_BAUDRATE == 32
JOYCON_INIT_UNK1     == 17
JOYCON_INIT_UNK2     == 16
JOYCON_INIT_UNK3     == 18

JOYCON_EXT_INPUT == 48

JOYCON_BUTTONS_LEFT  == 16771328
JOYCON_BUTTONS_RIGHT == 30463

JOYCON_BUTTONSET_LEFT  == 1
JOYCON_BUTTONSET_RIGHT == 2

\* The value mac[0] is compared with (line 338).
MAC_RIGHT == 124

\* sizeof(joycon_uart_initial), sizeof(joycon_uart_header)
SIZEOF_INITIAL == 5
SIZEOF_HEADER  == 12

\* The key codes of joycon_common_btn, by bit index 0..23 (the -1 entry ends it).
joycon_common_btn ==
    << "BTN_Y", "BTN_X", "BTN_B", "BTN_A",
       "BTN_0", "BTN_1", "BTN_TR", "BTN_TR2",
       "BTN_SELECT", "BTN_START",
       "BTN_THUMBR", "BTN_THUMBL",
       "BTN_MODE", "BTN_Z",
       "BTN_4", "BTN_5",
       "BTN_DPAD_DOWN", "BTN_DPAD_UP", "BTN_DPAD_RIGHT", "BTN_DPAD_LEFT",
       "BTN_2", "BTN_3", "BTN_TL", "BTN_TL2" >>

(***************************************************************************)
(* The state.                                                              *)
(***************************************************************************)
VARIABLES
    mem,              \* per serdev: its struct joycon is "none", "live" or "freed"
    drvdata,          \* per serdev: serdev_device_get_drvdata is set
    handshaken,       \* joycon->handshaken
    initialized,      \* joycon->initialized
    timeout_samples,  \* joycon->timeout_samples
    num_samples,      \* joycon->num_samples
    button_set,       \* joycon->button_set
    jbuttons,         \* joycon->buttons
    mac,              \* joycon->mac, indices 0..5
    input_dev,        \* the global sink: "NULL", "registered", "unregistered", "freed"
    sync_work,        \* the sync_handler work: "none" or "queued"
    buttons,          \* global buttons
    stick_lx, stick_ly, stick_rx, stick_ry,
    joycon_input_lock,\* 0 when free, else the serdev whose receive callback holds it
    tpc,              \* per serdev: position of timeout_handler
    ipc,              \* per serdev: position of input_handler
    rpc,              \* per serdev: position of the receive callback
    rbuf,             \* per serdev: the buffer last handed to the receive callback
    rtmp,             \* per serdev: the value of num_samples loaded by num_samples++
    tx,               \* per serdev: the last frame written to the transport
    emitted,          \* what the last sync_handler run reported to the sink
    rx,               \* per serdev: how the last received buffer was decoded, and
                      \* whether the session was Ready when it arrived
    mac_oob,          \* per serdev: indices outside mac[0..5] written by the MAC copy
    uaf,              \* <<serdev, handler>> pairs: handler used the session after kfree
    sink_uaf,         \* handlers that used the sink after it was unregistered or freed
    probe_ret,        \* per serdev: what the last joycon_serdev_probe returned
    tick              \* per serdev: why the running (or last) timeout_handler run took
                      \* its branch at line 207, and whether a write of it failed

session_vars == <<handshaken, initialized, timeout_samples, num_samples,
                  button_set, jbuttons, mac>>
global_vars  == <<buttons, stick_lx, stick_ly, stick_rx, stick_ry>>
vars == <<mem, drvdata, handshaken, initialized, timeout_samples, num_samples,
          button_set, jbuttons, mac, input_dev, sync_work, buttons,
          stick_lx, stick_ly, stick_rx, stick_ry, joycon_input_lock,
          tpc, ipc, rpc, rbuf, rtmp, tx, emitted, rx, mac_oob, uaf, sink_uaf,
          probe_ret, tick>>

ZeroMac == [k \in 0..5 |-> 0]

\* Module load: no connection registered, globals zero (static storage).
Init ==
    /\ mem = [s \in Serdevs |-> "none"]
    /\ drvdata = [s \in Serdevs |-> FALSE]
    /\ handshaken = [s \in Serdevs |-> FALSE]
    /\ initialized = [s \in Serdevs |-> FALSE]
    /\ timeout_samples = [s \in Serdevs |-> 0]
    /\ num_samples = [s \in Serdevs |-> 0]
    /\ button_set = [s \in Serdevs |-> 0]
    /\ jbuttons = [s \in Serdevs |-> 0]
    /\ mac = [s \in Serdevs |-> ZeroMac]
    /\ input_dev = "NULL"
    /\ sync_work = "none"
    /\ buttons = 0
    /\ stick_lx = 0 /\ stick_ly = 0 /\ stick_rx = 0 /\ stick_ry = 0
    /\ joycon_input_lock = 0
    /\ tpc = [s \in Serdevs |-> "none"]
    /\ ipc = [s \in Serdevs |-> "none"]
    /\ rpc = [s \in Serdevs |-> "idle"]
    /\ rbuf = [s \in Serdevs |-> <<>>]
    /\ rtmp = [s \in Serdevs |-> 0]
    /\ tx = [s \in Serdevs |-> "none"]
    /\ emitted = [keys |-> {}, abs |-> <<0, 0, 0, 0>>, synced |-> FALSE]
    /\ rx = [s \in Serdevs |-> [kind |-> "none", ready |-> FALSE]]
    /\ mac_oob = [s \in Serdevs |-> {}]
    /\ uaf = {}
    /\ sink_uaf = {}
    /\ probe_ret = [s \in Serdevs |-> "none"]
    /\ tick = [s \in Serdevs |-> [why |-> "none", failed |-> FALSE]]

\* A handler dereferences the session of serdev s.
Touch(s, who) == IF mem[s] = "freed" THEN uaf \cup {<<s, who>>} ELSE uaf

\* A handler uses the sink behind the global input_dev pointer.
TouchSink(who) ==
    IF input_dev \in {"unregistered", "freed"} THEN sink_uaf \cup {who} ELSE sink_uaf


(***************************************************************************)
(* joycon_serdev_probe and joycon_serdev_remove.                           *)
(***************************************************************************)
\* What can fail in a probe: nothing, devm_kzalloc, input_allocate_device,
\* input_register_device.
ProbeFaults == {"none", "joycon_alloc", "input_alloc", "input_register"}

\* Lines 451-476: the session is bound to the serdev and its two works queued.
\* devm_kzalloc returned zeroed memory.
InputExists(s) ==
    /\ mem' = [mem EXCEPT ![s] = "live"]
    /\ drvdata' = [drvdata EXCEPT ![s] = TRUE]
    /\ handshaken' = [handshaken EXCEPT ![s] = FALSE]
    /\ initialized' = [initialized EXCEPT ![s] = FALSE]
    /\ timeout_samples' = [timeout_samples EXCEPT ![s] = 0]
    /\ num_samples' = [num_samples EXCEPT ![s] = 0]
    /\ button_set' = [button_set EXCEPT ![s] = 0]
    /\ jbuttons' = [jbuttons EXCEPT ![s] = 0]
    /\ mac' = [mac EXCEPT ![s] = ZeroMac]
    /\ tpc' = [tpc EXCEPT ![s] = "queued"]
    /\ ipc' = [ipc EXCEPT ![s] = "queued"]
    /\ probe_ret' = [probe_ret EXCEPT ![s] = "0"]

\* Lines 478-482: kfree(joycon), return err. Nothing of the session is kept.
ProbeFail(s, err) ==
    /\ probe_ret' = [probe_ret EXCEPT ![s] = err]
    /\ UNCHANGED <<mem, drvdata, session_vars, tpc, ipc>>

Probe(s, fault) ==
    /\ mem[s] = "none"
    /\ IF fault = "joycon_alloc"
       THEN /\ ProbeFail(s, "ENOMEM")
            /\ UNCHANGED <<input_dev, sync_work>>
       ELSE IF input_dev # "NULL"
       THEN /\ InputExists(s)
            /\ UNCHANGED <<input_dev, sync_work>>
       ELSE IF fault = "input_alloc"
       THEN /\ ProbeFail(s, "ENOMEM")
            /\ UNCHANGED <<input_dev, sync_work>>
       ELSE IF fault = "input_register"
       THEN \* fail1: input_free_device(input_dev); the global keeps the pointer
            /\ ProbeFail(s, "EREGISTER")
            /\ input_dev' = "freed"
            /\ UNCHANGED sync_work
       ELSE /\ InputExists(s)
            /\ input_dev' = "registered"
            /\ sync_work' = "queued"
    /\ UNCHANGED <<global_vars, joycon_input_lock, rpc, rbuf, rtmp, tx, emitted,
                   rx, mac_oob, uaf, sink_uaf, tick>>

\* What input_unregister_device(joycon->input_dev) leaves behind the pointer.
UnregisterSink == IF input_dev = "registered" THEN "unregistered" ELSE input_dev

\* Lines 485-492. The works of the session stay queued and drvdata stays set;
\* the freed memory holds indeterminate values.
Remove(s) ==
    /\ mem[s] = "live"
    /\ input_dev' = UnregisterSink
    /\ sink_uaf' = TouchSink("remove")
    /\ mem' = [mem EXCEPT ![s] = "freed"]
    /\ \E h \in BOOLEAN, i \in BOOLEAN :
          /\ handshaken' = [handshaken EXCEPT ![s] = h]
          /\ initialized' = [initialized EXCEPT ![s] = i]
    /\ UNCHANGED <<drvdata, timeout_samples, num_samples, button_set, jbuttons, mac,
                   sync_work, global_vars, joycon_input_lock, tpc, ipc, rpc, rbuf,
                   rtmp, tx, emitted, rx, mac_oob, uaf, probe_ret, tick>>

(***************************************************************************)
(* timeout_handler, lines 197-242.                                         *)
(***************************************************************************)
\* Line 207 without its stall operand: only a session never initialized recovers.
StallConditionNoStall(s) == ~initialized[s]

\* Line 207 without "&& joycon->num_samples".
StallConditionAnyWindow(s) ==
    \/ num_samples[s] - timeout_samples[s] = 0
    \/ ~initialized[s]

\* Line 207.
StallCondition(s) ==
    \/ (num_samples[s] - timeout_samples[s] = 0 /\ num_samples[s] # 0)
    \/ ~initialized[s]

\* Which operand of line 207 sent the run into the recovery branch, if any.
BranchReason(s) ==
    IF num_samples[s] - timeout_samples[s] = 0 /\ num_samples[s] # 0 THEN "stall"
    ELSE IF ~initialized[s] THEN "uninit"
    ELSE "skip"

\* serdev_device_write of a frame: ok is whether the transport took it.
Written(s, frame, ok) == IF ok THEN [tx EXCEPT ![s] = frame] ELSE tx

\* The run remembers a write that failed.
WriteResult(s, ok) == IF ok THEN tick ELSE [tick EXCEPT ![s].failed = TRUE]

TimeoutFrame ==
    UNCHANGED <<mem, drvdata, button_set, jbuttons, mac, input_dev, sync_work,
                global_vars, joycon_input_lock, ipc, rpc, rbuf, rtmp, emitted, rx,
                mac_oob, sink_uaf, probe_ret>>

T207(s) ==
    /\ tpc[s] = "queued"
    /\ tpc' = [tpc EXCEPT ![s] = IF StallCondition(s) THEN "L209" ELSE "L239"]
    /\ tick' = [tick EXCEPT ![s] = [why |-> BranchReason(s), failed |-> FALSE]]
    /\ uaf' = Touch(s, "timeout")
    /\ UNCHANGED <<handshaken, initialized, timeout_samples, num_samples, tx>>
    /\ TimeoutFrame

T209(s) ==
    /\ tpc[s] = "L209"
    /\ handshaken' = [handshaken EXCEPT ![s] = FALSE]
    /\ tpc' = [tpc EXCEPT ![s] = "L210"]
    /\ uaf' = Touch(s, "timeout")
    /\ UNCHANGED <<initialized, timeout_samples, num_samples, tx>>
    /\ UNCHANGED tick
    /\ TimeoutFrame

T210(s) ==
    /\ tpc[s] = "L210"
    /\ initialized' = [initialized EXCEPT ![s] = FALSE]
    /\ tpc' = [tpc EXCEPT ![s] = "L211"]
    /\ uaf' = Touch(s, "timeout")
    /\ UNCHANGED <<handshaken, timeout_samples, num_samples, tx>>
    /\ UNCHANGED tick
    /\ TimeoutFrame

\* while (!joycon->handshaken)
T211(s) ==
    /\ tpc[s] = "L211"
    /\ tpc' = [tpc EXCEPT ![s] = IF ~handshaken[s] THEN "L213" ELSE "L224"]
    /\ uaf' = Touch(s, "timeout")
    /\ UNCHANGED <<handshaken, initialized, timeout_samples, num_samples, tx>>
    /\ UNCHANGED tick
    /\ TimeoutFrame

\* Lines 213-214 and 216-217: a failed write leaves the loop for fail:.
TWriteChecked(s, at, frame, next) ==
    /\ tpc[s] = at
    /\ \E ok \in BOOLEAN :
          /\ tx' = Written(s, frame, ok)
          /\ tick' = WriteResult(s, ok)
          /\ tpc' = [tpc EXCEPT ![s] = IF ok THEN next ELSE "L239"]
    /\ UNCHANGED <<handshaken, initialized, timeout_samples, num_samples, uaf>>
    /\ TimeoutFrame

T213(s) == TWriteChecked(s, "L213", "magic_start", "L216")
T216(s) == TWriteChecked(s, "L216", "handshake_start", "L219")

\* usleep_range(180000, 200000)
T219(s) ==
    /\ tpc[s] = "L219"
    /\ tpc' = [tpc EXCEPT ![s] = "L211"]
    /\ UNCHANGED <<handshaken, initialized, timeout_samples, num_samples, tx, uaf>>
    /\ UNCHANGED tick
    /\ TimeoutFrame

\* Lines 224-230: the result of the write is not looked at.
TWriteUnchecked(s, at, frame, next) ==
    /\ tpc[s] = at
    /\ \E ok \in BOOLEAN :
          /\ tx' = Written(s, frame, ok)
          /\ tick' = WriteResult(s, ok)
    /\ tpc' = [tpc EXCEPT ![s] = next]
    /\ UNCHANGED <<handshaken, initialized, timeout_samples, num_samples, uaf>>
    /\ TimeoutFrame

T224(s) == TWriteUnchecked(s, "L224", "get_mac", "L228")
T228(s) == TWriteUnchecked(s, "L228", "unk_1", "L229")
T229(s) == TWriteUnchecked(s, "L229", "unk_2", "L230")
T230(s) == TWriteUnchecked(s, "L230", "unk_3", "L232")

T232(s) ==
    /\ tpc[s] = "L232"
    /\ num_samples' = [num_samples EXCEPT ![s] = 0]
    /\ tpc' = [tpc EXCEPT ![s] = "L233"]
    /\ uaf' = Touch(s, "timeout")
    /\ UNCHANGED <<handshaken, initialized, timeout_samples, tx>>
    /\ UNCHANGED tick
    /\ TimeoutFrame

\* Line 233 of a handler whose success path queues the work again without
\* passing line 239.
T233Requeues(s) ==
    /\ tpc[s] = "L233"
    /\ initialized' = [initialized EXCEPT ![s] = TRUE]
    /\ tpc' = [tpc EXCEPT ![s] = "queued"]
    /\ uaf' = Touch(s, "timeout")
    /\ UNCHANGED <<handshaken, timeout_samples, num_samples, tx>>
    /\ UNCHANGED tick
    /\ TimeoutFrame

T233(s) ==
    /\ tpc[s] = "L233"
    /\ initialized' = [initialized EXCEPT ![s] = TRUE]
    /\ tpc' = [tpc EXCEPT ![s] = "L239"]
    /\ uaf' = Touch(s, "timeout")
    /\ UNCHANGED <<handshaken, timeout_samples, num_samples, tx>>
    /\ UNCHANGED tick
    /\ TimeoutFrame

\* fail: lines 239-241, the work is queued again.
T239(s) ==
    /\ tpc[s] = "L239"
    /\ timeout_samples' = [timeout_samples EXCEPT ![s] = num_samples[s]]
    /\ tpc' = [tpc EXCEPT ![s] = "queued"]
    /\ uaf' = Touch(s, "timeout")
    /\ UNCHANGED <<handshaken, initialized, num_samples, tx>>
    /\ UNCHANGED tick
    /\ TimeoutFrame

(***************************************************************************)
(* input_handler, lines 244-256.                                           *)
(***************************************************************************)
InputFrameVars ==
    UNCHANGED <<mem, drvdata, session_vars, input_dev, sync_work, global_vars,
                joycon_input_lock, tpc, rpc, rbuf, rtmp, emitted, rx, mac_oob,
                sink_uaf, probe_ret, tick>>

\* Line 249; when not initialized the work is queued again at once.
I249(s) ==
    /\ ipc[s] = "queued"
    /\ ipc' = [ipc EXCEPT ![s] = IF initialized[s] THEN "L251" ELSE "queued"]
    /\ uaf' = Touch(s, "input")
    /\ UNCHANGED tx
    /\ InputFrameVars

\* Lines 251-255: joycon->serdev is read for the write.
I251(s) ==
    /\ ipc[s] = "L251"
    /\ \E ok \in BOOLEAN : tx' = Written(s, "controller_status", ok)
    /\ ipc' = [ipc EXCEPT ![s] = "queued"]
    /\ uaf' = Touch(s, "input")
    /\ InputFrameVars

(***************************************************************************)
(* sync_handler, lines 258-278: one run under joycon_input_lock.           *)
(***************************************************************************)
\* input_report_key(input_dev, joycon_common_btn[i], buttons & BIT(i))
KeysDown(b) ==
    {joycon_common_btn[i + 1] : i \in {k \in 0..(Len(joycon_common_btn) - 1) :
                                            BitAnd(b, BIT(k)) # 0}}

\* sync_handler without mutex_lock(&joycon_input_lock).
SyncHandlerUnlocked ==
    /\ sync_work = "queued"
    /\ emitted' = [keys |-> KeysDown(buttons),
                   abs |-> <<stick_lx, stick_ly, stick_rx, stick_ry>>,
                   synced |-> TRUE]
    /\ sink_uaf' = TouchSink("sync")
    /\ UNCHANGED <<mem, drvdata, session_vars, input_dev, sync_work, global_vars,
                   joycon_input_lock, tpc, ipc, rpc, rbuf, rtmp, tx, rx, mac_oob,
                   uaf, probe_ret, tick>>

SyncHandler ==
    /\ sync_work = "queued"
    /\ joycon_input_lock = 0
    /\ emitted' = [keys |-> KeysDown(buttons),
                   abs |-> <<stick_lx, stick_ly, stick_rx, stick_ry>>,
                   synced |-> TRUE]
    /\ sink_uaf' = TouchSink("sync")
    /\ UNCHANGED <<mem, drvdata, session_vars, input_dev, sync_work, global_vars,
                   joycon_input_lock, tpc, ipc, rpc, rbuf, rtmp, tx, rx, mac_oob,
                   uaf, probe_ret, tick>>


(***************************************************************************)
(* The receive callback: joycon_serdev_receive_buf, joycon_packet_parse,   *)
(* joycon_extret_parse, joycon_initret_parse.                              *)
(***************************************************************************)
\* buf[i] of a C buffer held as a sequence
Byte(buf, i) == buf[i + 1]

\* A decoder with a case for JOYCON_COMMAND_EXTSEND, which it takes as an init
\* reply of a subtype it does not know.
ClassifyExtSend(buf) ==
    LET command == Byte(buf, SIZEOF_INITIAL)
    IN  IF command = JOYCON_COMMAND_EXTRET
        THEN IF Byte(buf, SIZEOF_HEADER) = JOYCON_EXT_INPUT
             THEN "InputReport" ELSE "UnknownExtret"
        ELSE IF command = JOYCON_COMMAND_EXTSEND THEN "UnknownInitret"
        ELSE IF command = JOYCON_COMMAND_INITRET
        THEN LET sub == Byte(buf, SIZEOF_INITIAL + 1)
             IN  IF sub = JOYCON_INIT_MAC THEN "IdentifierReply"
                 ELSE IF sub = JOYCON_INIT_UNK1 THEN "Unk1"
                 ELSE IF sub = JOYCON_INIT_UNK2 THEN "Unk2"
                 ELSE IF sub = JOYCON_INIT_UNK3 THEN "Unk3"
                 ELSE IF sub = JOYCON_INIT_BAUDRATE THEN "BaudRateAck"
                 ELSE "UnknownInitret"
        ELSE IF command = JOYCON_COMMAND_HANDSHAKE THEN "HandshakeAck"
        ELSE "Unknown"

\* How the switches of lines 362-377, 285-321 and 329-354 take a buffer.
Classify(buf) ==
    LET command == Byte(buf, SIZEOF_INITIAL)
    IN  IF command = JOYCON_COMMAND_EXTRET
        THEN IF Byte(buf, SIZEOF_HEADER) = JOYCON_EXT_INPUT
             THEN "InputReport" ELSE "UnknownExtret"
        ELSE IF command = JOYCON_COMMAND_INITRET
        THEN LET sub == Byte(buf, SIZEOF_INITIAL + 1)
             IN  IF sub = JOYCON_INIT_MAC THEN "IdentifierReply"
                 ELSE IF sub = JOYCON_INIT_UNK1 THEN "Unk1"
                 ELSE IF sub = JOYCON_INIT_UNK2 THEN "Unk2"
                 ELSE IF sub = JOYCON_INIT_UNK3 THEN "Unk3"
                 ELSE IF sub = JOYCON_INIT_BAUDRATE THEN "BaudRateAck"
                 ELSE "UnknownInitret"
        ELSE IF command = JOYCON_COMMAND_HANDSHAKE THEN "HandshakeAck"
        ELSE "Unknown"

\* Line 288, packet = buf + sizeof(joycon_uart_header)
ReportButtons(buf) ==
    BitOr(BitOr(Byte(buf, SIZEOF_HEADER + 3), Shl(Byte(buf, SIZEOF_HEADER + 4), 8)),
          Shl(Byte(buf, SIZEOF_HEADER + 5), 16))

\* Lines 304-305 and 310-311
StickX(lo, hi) == BitOr(Shl(BitAnd(hi, 15), 4), Shr(BitAnd(lo, 240), 4))
StickY(b) == 256 - b

IsLeft(s)  == BitAnd(button_set[s], JOYCON_BUTTONSET_LEFT) # 0
IsRight(s) == BitAnd(button_set[s], JOYCON_BUTTONSET_RIGHT) # 0

\* Lines 293 and 298: buttons &= ~mask
ClearBits(b, mask) == BitAndNot(b, mask)
\* Lines 294 and 299 without the mask: buttons |= joycon->buttons
SetBitsUnmasked(b, jb, mask) == BitOr(b, jb)

\* Lines 294 and 299: buttons |= (joycon->buttons & mask)
SetBits(b, jb, mask) == BitOr(b, BitAnd(jb, mask))

\* Lines 333-334: for (i = 0xC; i >= 0x6; i--) mac[j++] = packet[i], with
\* packet = buf + sizeof(joycon_uart_initial) + 1 and j starting at j0.
MacSource(buf, j0, k) == Byte(buf, SIZEOF_INITIAL + 1 + 12 - (k - j0))
MacCopy(old, buf, j0) ==
    [k \in 0..5 |-> IF k >= j0 /\ k - j0 <= 6 THEN MacSource(buf, j0, k) ELSE old[k]]
MacOutOfBounds(j0) == {k \in j0..(j0 + 6) : k \notin 0..5}

\* Lines 338-341 looking at mac[1].
SideOfSecondByte(m) ==
    IF m[1] # MAC_RIGHT THEN JOYCON_BUTTONSET_LEFT ELSE JOYCON_BUTTONSET_RIGHT

\* Lines 338-341
SideOf(m) == IF m[0] # MAC_RIGHT THEN JOYCON_BUTTONSET_LEFT ELSE JOYCON_BUTTONSET_RIGHT

\* Where the merge of lines 290-313 starts for a session.
MergeStart(s) == IF IsLeft(s) THEN "L293" ELSE IF IsRight(s) THEN "L298" ELSE "L304"

ReceiveFrame ==
    UNCHANGED <<mem, drvdata, input_dev, sync_work, tpc, ipc, tx, emitted,
                sink_uaf, probe_ret, tick>>

\* A HandshakeAck that also sends the session back to initialization.
RxHandshakeReinit(s) ==
    /\ handshaken' = [handshaken EXCEPT ![s] = TRUE]
    /\ initialized' = [initialized EXCEPT ![s] = FALSE]
    /\ UNCHANGED <<timeout_samples, num_samples, button_set, jbuttons,
                   mac, mac_oob, global_vars, joycon_input_lock, rpc, rtmp>>

\* JOYCON_COMMAND_HANDSHAKE, lines 370-373
RxHandshake(s) ==
    /\ handshaken' = [handshaken EXCEPT ![s] = TRUE]
    /\ UNCHANGED <<initialized, timeout_samples, num_samples, button_set, jbuttons,
                   mac, mac_oob, global_vars, joycon_input_lock, rpc, rtmp>>

\* JOYCON_INIT_MAC, lines 331-342; j is read before it was ever written.
RxMac(s, buf) ==
    /\ \E j0 \in 0..MaxJStart :
          /\ mac' = [mac EXCEPT ![s] = MacCopy(mac[s], buf, j0)]
          /\ mac_oob' = [mac_oob EXCEPT ![s] = MacOutOfBounds(j0)]
    /\ button_set' = [button_set EXCEPT ![s] = SideOf(mac'[s])]
    /\ UNCHANGED <<handshaken, initialized, timeout_samples, num_samples, jbuttons,
                   global_vars, joycon_input_lock, rpc, rtmp>>

\* JOYCON_EXT_INPUT, lines 288-290: the report is stored and the lock taken.
RxInput(s, buf) ==
    /\ num_samples[s] < MaxSamples
    /\ joycon_input_lock = 0
    /\ jbuttons' = [jbuttons EXCEPT ![s] = ReportButtons(buf)]
    /\ joycon_input_lock' = s
    /\ rpc' = [rpc EXCEPT ![s] = MergeStart(s)]
    /\ UNCHANGED <<handshaken, initialized, timeout_samples, num_samples, button_set,
                   mac, mac_oob, global_vars, rtmp>>

\* Every other command or subcommand: logged, nothing stored.
RxIgnored ==
    UNCHANGED <<session_vars, mac_oob, global_vars, joycon_input_lock, rpc, rtmp>>

\* Lines 380-395 with the dispatch of lines 357-378.
Receive(s, buf) ==
    /\ drvdata[s]
    /\ rpc[s] = "idle"
    /\ rx' = [rx EXCEPT ![s] = [kind |-> Classify(buf),
                                 ready |-> handshaken[s] /\ initialized[s]]]
    /\ rbuf' = [rbuf EXCEPT ![s] = buf]
    /\ uaf' = Touch(s, "receive")
    /\ CASE Classify(buf) = "HandshakeAck" -> RxHandshake(s)
         [] Classify(buf) = "IdentifierReply" -> RxMac(s, buf)
         [] Classify(buf) = "InputReport" -> RxInput(s, buf)
         [] OTHER -> RxIgnored
    /\ ReceiveFrame

MergeFrame ==
    UNCHANGED <<mem, drvdata, session_vars, input_dev, sync_work, tpc, ipc, rbuf,
                rtmp, tx, emitted, rx, mac_oob, uaf, sink_uaf, probe_ret, tick>>

\* Line 293
RxL293(s) ==
    /\ rpc[s] = "L293"
    /\ buttons' = ClearBits(buttons, JOYCON_BUTTONS_LEFT)
    /\ rpc' = [rpc EXCEPT ![s] = "L294"]
    /\ UNCHANGED <<stick_lx, stick_ly, stick_rx, stick_ry, joycon_input_lock>>
    /\ MergeFrame

\* Line 294
RxL294(s) ==
    /\ rpc[s] = "L294"
    /\ buttons' = SetBits(buttons, jbuttons[s], JOYCON_BUTTONS_LEFT)
    /\ rpc' = [rpc EXCEPT ![s] = IF IsRight(s) THEN "L298" ELSE "L304"]
    /\ UNCHANGED <<stick_lx, stick_ly, stick_rx, stick_ry, joycon_input_lock>>
    /\ MergeFrame

\* Line 298
RxL298(s) ==
    /\ rpc[s] = "L298"
    /\ buttons' = ClearBits(buttons, JOYCON_BUTTONS_RIGHT)
    /\ rpc' = [rpc EXCEPT ![s] = "L299"]
    /\ UNCHANGED <<stick_lx, stick_ly, stick_rx, stick_ry, joycon_input_lock>>
    /\ MergeFrame

\* Line 299
RxL299(s) ==
    /\ rpc[s] = "L299"
    /\ buttons' = SetBits(buttons, jbuttons[s], JOYCON_BUTTONS_RIGHT)
    /\ rpc' = [rpc EXCEPT ![s] = "L304"]
    /\ UNCHANGED <<stick_lx, stick_ly, stick_rx, stick_ry, joycon_input_lock>>
    /\ MergeFrame

\* Lines 302-313: the sticks of the session's side, then mutex_unlock.
RxL304(s) ==
    /\ rpc[s] = "L304"
    /\ LET p(i) == Byte(rbuf[s], SIZEOF_HEADER + i)
       IN  /\ stick_lx' = IF IsLeft(s) THEN StickX(p(6), p(7)) ELSE stick_lx
           /\ stick_ly' = IF IsLeft(s) THEN StickY(p(8)) ELSE stick_ly
           /\ stick_rx' = IF IsRight(s) THEN StickX(p(9), p(10)) ELSE stick_rx
           /\ stick_ry' = IF IsRight(s) THEN StickY(p(11)) ELSE stick_ry
    /\ joycon_input_lock' = 0
    /\ rpc' = [rpc EXCEPT ![s] = "L316"]
    /\ UNCHANGED buttons
    /\ MergeFrame

\* Line 316, num_samples++: the load ...
RxL316(s) ==
    /\ rpc[s] = "L316"
    /\ rtmp' = [rtmp EXCEPT ![s] = num_samples[s]]
    /\ rpc' = [rpc EXCEPT ![s] = "L316s"]
    /\ uaf' = Touch(s, "receive")
    /\ UNCHANGED <<mem, drvdata, session_vars, input_dev, sync_work, global_vars,
                   joycon_input_lock, tpc, ipc, rbuf, tx, emitted, rx, mac_oob,
                   sink_uaf, probe_ret, tick>>

\* ... and the store.
RxL316s(s) ==
    /\ rpc[s] = "L316s"
    /\ num_samples' = [num_samples EXCEPT ![s] = rtmp[s] + 1]
    /\ rpc' = [rpc EXCEPT ![s] = "idle"]
    /\ rtmp' = [rtmp EXCEPT ![s] = 0]
    /\ uaf' = Touch(s, "receive")
    /\ UNCHANGED <<mem, drvdata, handshaken, initialized, timeout_samples, button_set,
                   jbuttons, mac, input_dev, sync_work, global_vars,
                   joycon_input_lock, tpc, ipc, rbuf, tx, emitted, rx, mac_oob,
                   sink_uaf, probe_ret, tick>>

(***************************************************************************)
(* Buffers the device delivers.                                            *)
(***************************************************************************)
\* magic, total_size, pad, command: the first six bytes of a frame
FrameHead(total_size, command) == <<25, 1, 3, total_size, 0, command>>

\* A HandshakeAck as the device answers handshake_start.
AckFrame == FrameHead(7, JOYCON_COMMAND_HANDSHAKE) \o <<2, 1, 126, 0, 0, 0>>

\* An ExtendedReport 0x30 whose 24-bit button field is btn and whose stick
\* bytes packet[6..11] are st.
InputFrame(btn, st) ==
    FrameHead(19, JOYCON_COMMAND_EXTRET) \o <<0, 0, 0, 0, 0, 0>>
        \o <<JOYCON_EXT_INPUT, 0, 0, btn % 256, (btn \div 256) % 256, btn \div 65536>>
        \o st

\* An InitAck 0x01 whose payload bytes packet[6..0xC] are id[1..7].
IdFrame(id) ==
    FrameHead(14, JOYCON_COMMAND_INITRET) \o <<JOYCON_INIT_MAC, 0, 0, 0, 0, 0>> \o id

\* The identifier payload whose byte at packet[0xC] is first.
IdPayload(first) == <<6, 5, 4, 3, 2, 1, first>>


(***************************************************************************)
(* Spec: the protocol of one connection, from module load on. Its probe    *)
(* succeeds; the device answers with HandshakeAck and InputReport frames   *)
(* at any time, or stays silent; every transport write may fail. The       *)
(* session's side is never learned, so a report merges nothing.            *)
(***************************************************************************)
\* The connection this specification registers.
TheSession == CHOOSE s \in Serdevs : \A r \in Serdevs : s <= r

StickRest == <<0, 8, 128, 0, 8, 128>>

SessionFrames == {AckFrame, InputFrame(256, StickRest)}

TimeoutStep(s) ==
    \/ T207(s) \/ T209(s) \/ T210(s) \/ T211(s) \/ T213(s) \/ T216(s) \/ T219(s)
    \/ T224(s) \/ T228(s) \/ T229(s) \/ T230(s) \/ T232(s) \/ T233(s) \/ T239(s)

InputStep(s) == I249(s) \/ I251(s)

CountStep(s) == RxL304(s) \/ RxL316(s) \/ RxL316s(s)

Next ==
    \/ Probe(TheSession, "none")
    \/ TimeoutStep(TheSession)
    \/ InputStep(TheSession)
    \/ \E buf \in SessionFrames : Receive(TheSession, buf)
    \/ CountStep(TheSession)

Spec == Init /\ [][Next]_vars


(***************************************************************************)
(* Properties of the session protocol (checked under Spec).                *)
(***************************************************************************)
\* timeout_handler of s starts a run: line 207 is evaluated in this step.
TickChecks(s) == tpc[s] = "queued" /\ tpc'[s] # "queued"

\* No InputReport was counted during the window and one was counted before.
Stalled(s) == num_samples[s] = timeout_samples[s] /\ num_samples[s] > 0

Ready(s) == handshaken[s] /\ initialized[s]

\* C4: a run of the Liveness Monitor that finds sample_counter equal to
\* last_checked_counter and greater than zero takes the recovery branch, clears
\* handshaken and then initialized, and comes to the handshake loop in the same
\* run, where it writes magic-sync unless handshaken was set again meanwhile.
C4_StallForcesRehandshake ==
    [][\A s \in Serdevs :
          /\ (TickChecks(s) /\ Stalled(s)) => tpc'[s] = "L209"
          /\ (tpc[s] = "L209" /\ tpc'[s] # "L209")
                => (~handshaken'[s] /\ tpc'[s] = "L210")
          /\ (tpc[s] = "L210" /\ tpc'[s] # "L210")
                => (~initialized'[s] /\ tpc'[s] = "L211")
          /\ (tpc[s] = "L211" /\ tpc'[s] # "L211" /\ ~handshaken[s])
                => tpc'[s] = "L213"]_vars

\* C4 witness: a Ready session was found stalled and its run is in the branch.
C4_Witness ==
    /\ tick[TheSession].why = "stall"
    /\ tpc[TheSession] = "L213"
    /\ ~handshaken[TheSession] /\ ~initialized[TheSession]
    /\ num_samples[TheSession] > 0

\* C5 as claimed: every Ready session that got no sample during a window,
\* one whose sample_counter is still zero included, is sent back to the
\* handshake by the run that follows the window.
C5_ReadyWithoutSamplesRecovers ==
    [][\A s \in Serdevs :
          (TickChecks(s) /\ Ready(s) /\ num_samples[s] = timeout_samples[s])
             => tpc'[s] = "L209"]_vars

\* C5 amended: a run that finds the session Ready takes the recovery branch
\* exactly when sample_counter is non-zero and did not advance during the
\* window; a Ready session whose sample_counter is still zero is left Ready.
C5_ReadyRecoversIffCountedBefore ==
    [][\A s \in Serdevs :
          (TickChecks(s) /\ Ready(s)) => (tpc'[s] = "L209" <=> Stalled(s))]_vars

\* C5 witness: a run found the session Ready with sample_counter zero and
\* went straight to its end.
C5_Witness ==
    /\ tick[TheSession].why = "skip"
    /\ tpc[TheSession] = "L239"
    /\ Ready(TheSession)
    /\ num_samples[TheSession] = 0 /\ timeout_samples[TheSession] = 0

\* C6: decoding a HandshakeAck sets handshaken and nothing else: it writes no
\* frame, moves neither periodic task, leaves initialized and sample_counter
\* as they are, and changes nothing of a session that is already handshaken.
C6_AckOnlySetsHandshaken ==
    [][\A s \in Serdevs :
          Receive(s, AckFrame)
             => /\ handshaken'[s]
                /\ UNCHANGED <<initialized, num_samples, timeout_samples, tx, tpc, ipc>>
                /\ (handshaken[s] => UNCHANGED session_vars)]_vars

\* C6 witness: a HandshakeAck arrived at a Ready session, which is still Ready.
C6_Witness ==
    /\ rx[TheSession] = [kind |-> "HandshakeAck", ready |-> TRUE]
    /\ Ready(TheSession)
    /\ tpc[TheSession] = "queued"

\* C10 as claimed: in every state of a live session initialized implies
\* handshaken.
C10_InitializedImpliesHandshaken ==
    \A s \in Serdevs : mem[s] = "live" => (initialized[s] => handshaken[s])


(***************************************************************************)
(* SpecCodec: the decoder alone. One connection is registered and the      *)
(* receive callback is handed identifier replies with every listed first   *)
(* byte, the other init replies, unknown frames, and the driver's own      *)
(* command constants as a line that echoes them would deliver them.        *)
(***************************************************************************)
CodecBytes == {0, 50, 123, 124, 125, 255}

CodecIdFrames ==
    {IdFrame(<<6, 5, 4, 3, 2, second, first>>) :
        first \in CodecBytes, second \in {5, 124}}

\* An InitAck with subcommand sub and no payload of interest.
InitFrame(sub) ==
    FrameHead(14, JOYCON_COMMAND_INITRET) \o <<sub, 0, 0, 0, 0, 0, 0, 0, 0, 0, 0, 0, 0>>

\* The command constants that carry a frame header (magic_start is a bare
\* sync pattern, shorter than a header).
CommandFrames ==
    {handshake_start, get_mac, switch_baud, controller_status, unk_1, unk_2, unk_3}

CodecFrames ==
    CodecIdFrames \cup CommandFrames
      \cup {InitFrame(sub) : sub \in {JOYCON_INIT_UNK1, JOYCON_INIT_UNK2,
                                      JOYCON_INIT_UNK3, JOYCON_INIT_BAUDRATE, 153}}
      \cup {AckFrame, FrameHead(7, 0) \o <<0, 0, 0, 0, 0, 0>>}

NextCodec ==
    \/ Probe(TheSession, "none")
    \/ \E buf \in CodecFrames : Receive(TheSession, buf)

SpecCodec == Init /\ [][NextCodec]_vars

\* C8: once an IdentifierReply was processed the session's side is right
\* exactly when byte 0 of its stored identifier is 0x7C and left for every
\* other value, whatever the other identifier bytes are; when the copy started
\* at mac[0], that byte is the payload byte at offset 0xC.
C8_SideFollowsFirstIdentifierByte ==
    \A s \in Serdevs :
       (rx[s].kind = "IdentifierReply" \/ button_set[s] # 0)
          => /\ button_set[s] = (IF mac[s][0] = 124 THEN JOYCON_BUTTONSET_RIGHT
                                                   ELSE JOYCON_BUTTONSET_LEFT)
             /\ (rx[s].kind = "IdentifierReply" /\ mac_oob[s] = {6})
                   => mac[s][0] = Byte(rbuf[s], 18)

\* C8 witness: an identifier whose first byte alone is 0x7C made the session
\* a right one.
C8_Witness ==
    /\ rx[TheSession].kind = "IdentifierReply"
    /\ mac[TheSession][0] = 124 /\ mac[TheSession][1] # 124
    /\ button_set[TheSession] = JOYCON_BUTTONSET_RIGHT

\* C9 as claimed: a command constant handed to the decoder gets a
\* classification that no other command constant gets.
C9_ConstantsDecodeDistinct ==
    \A s \in Serdevs : \A a \in CommandFrames :
       (rx[s].kind # "none" /\ rbuf[s] = a)
          => \A b \in CommandFrames \ {a} : Classify(b) # rx[s].kind

\* C9 amended: the handshake request decodes as HandshakeAck, the status
\* request as an extended report of unknown subtype, and the five 0x91
\* requests (read-identifier, set-baud-rate, unk1, unk2, unk3) all as the one
\* classification "unknown command".
C9_ConstantsDecodeByCommandByte ==
    \A s \in Serdevs :
       rx[s].kind # "none"
          => /\ rbuf[s] = handshake_start => rx[s].kind = "HandshakeAck"
             /\ rbuf[s] = controller_status => rx[s].kind = "UnknownExtret"
             /\ rbuf[s] \in {get_mac, switch_baud, unk_1, unk_2, unk_3}
                   => rx[s].kind = "Unknown"

\* C9 witness: the read-identifier request was decoded as an unknown command.
C9_Witness ==
    /\ rbuf[TheSession] = get_mac
    /\ rx[TheSession].kind = "Unknown"


(***************************************************************************)
(* SpecMerge: two connections and the shared aggregate. It starts where    *)
(* both probes have succeeded and each session has processed one           *)
(* IdentifierReply (copied from mac[0] on), in every combination of sides. *)
(* Each device then sends InputReports; the merges of the two receive      *)
(* callbacks and sync_handler interleave as joycon_input_lock allows. The  *)
(* periodic tasks of the sessions, which touch neither the aggregate nor   *)
(* button_set, are left out.                                               *)
(***************************************************************************)
StickEdge == <<240, 15, 0, 240, 15, 0>>

MergeFrames ==
    {InputFrame(16777215, StickRest), InputFrame(0, StickEdge),
     InputFrame(2, StickRest)}

\* The first identifier bytes the two devices may report.
MergeIds == {50, MAC_RIGHT}

InitMerge ==
    /\ \E id \in [Serdevs -> MergeIds] :
          /\ rbuf = [s \in Serdevs |-> IdFrame(IdPayload(id[s]))]
          /\ mac = [s \in Serdevs |-> MacCopy(ZeroMac, IdFrame(IdPayload(id[s])), 0)]
          /\ button_set = [s \in Serdevs |->
                              SideOf(MacCopy(ZeroMac, IdFrame(IdPayload(id[s])), 0))]
    /\ rx = [s \in Serdevs |-> [kind |-> "IdentifierReply", ready |-> FALSE]]
    /\ mac_oob = [s \in Serdevs |-> MacOutOfBounds(0)]
    /\ mem = [s \in Serdevs |-> "live"]
    /\ drvdata = [s \in Serdevs |-> TRUE]
    /\ handshaken = [s \in Serdevs |-> FALSE]
    /\ initialized = [s \in Serdevs |-> FALSE]
    /\ timeout_samples = [s \in Serdevs |-> 0]
    /\ num_samples = [s \in Serdevs |-> 0]
    /\ jbuttons = [s \in Serdevs |-> 0]
    /\ input_dev = "registered"
    /\ sync_work = "queued"
    /\ buttons = 0
    /\ stick_lx = 0 /\ stick_ly = 0 /\ stick_rx = 0 /\ stick_ry = 0
    /\ joycon_input_lock = 0
    /\ tpc = [s \in Serdevs |-> "queued"]
    /\ ipc = [s \in Serdevs |-> "queued"]
    /\ rpc = [s \in Serdevs |-> "idle"]
    /\ rtmp = [s \in Serdevs |-> 0]
    /\ tx = [s \in Serdevs |-> "none"]
    /\ emitted = [keys |-> {}, abs |-> <<0, 0, 0, 0>>, synced |-> FALSE]
    /\ uaf = {}
    /\ sink_uaf = {}
    /\ probe_ret = [s \in Serdevs |-> "0"]
    /\ tick = [s \in Serdevs |-> [why |-> "none", failed |-> FALSE]]

MergeStep(s) ==
    \/ RxL293(s) \/ RxL294(s) \/ RxL298(s) \/ RxL299(s) \/ RxL304(s)
    \/ RxL316(s) \/ RxL316s(s)

NextMerge ==
    \/ \E s \in Serdevs : \E buf \in MergeFrames : Receive(s, buf)
    \/ \E s \in Serdevs : MergeStep(s)
    \/ SyncHandler

SpecMerge == InitMerge /\ [][NextMerge]_vars


\* The button part of the session's last report is in the aggregate: no merge
\* of it is between lines 290 and 300.
ButtonsMerged(s) == rpc[s] \in {"idle", "L304", "L316", "L316s"}

\* C1 as claimed: with one session left and one right, once their last
\* reports are merged, merged_buttons is (last left report AND left mask) OR
\* (last right report AND right mask): neither side changes a bit of the other.
C1_SidesOwnDisjointBits ==
    \A l \in Serdevs, r \in Serdevs :
       ( /\ button_set[l] = JOYCON_BUTTONSET_LEFT
         /\ button_set[r] = JOYCON_BUTTONSET_RIGHT
         /\ ButtonsMerged(l) /\ ButtonsMerged(r) )
          => buttons = BitOr(BitAnd(jbuttons[l], JOYCON_BUTTONS_LEFT),
                             BitAnd(jbuttons[r], JOYCON_BUTTONS_RIGHT))

(***************************************************************************)
(* SpecEndToEnd: one left controller from module load to the sink: probe,  *)
(* the periodic tasks, HandshakeAck, an IdentifierReply whose first byte   *)
(* is 0x32, InputReports, and sync_handler.                                *)
(***************************************************************************)
EndToEndFrames ==
    {AckFrame, IdFrame(IdPayload(50)), InputFrame(2, StickEdge)}

LeftMergeStep(s) ==
    \/ RxL293(s) \/ RxL294(s) \/ RxL304(s) \/ RxL316(s) \/ RxL316s(s)

NextEndToEnd ==
    \/ Probe(TheSession, "none")
    \/ TimeoutStep(TheSession)
    \/ InputStep(TheSession)
    \/ \E buf \in EndToEndFrames : Receive(TheSession, buf)
    \/ LeftMergeStep(TheSession)
    \/ SyncHandler

SpecEndToEnd == Init /\ [][NextEndToEnd]_vars


\* The scenario of the end-to-end claim at a run of sync_handler: the session
\* is left and Ready, and the last buffer it was handed, when it was Ready, is
\* an InputReport whose button field is btn.
EndToEndReport(s, btn) ==
    /\ button_set[s] = JOYCON_BUTTONSET_LEFT
    /\ Ready(s)
    /\ rx[s] = [kind |-> "InputReport", ready |-> TRUE]
    /\ jbuttons[s] = btn

\* C7 as claimed: the run of sync_handler that follows an InputReport with
\* button field 0x000002 from a left, Ready session reports exactly one
\* button as pressed.
C7_ReportTwoEmitsOneButton ==
    [][(SyncHandler /\ EndToEndReport(TheSession, 2))
          => Cardinality(emitted'.keys) = 1]_vars

\* C7 amended: with no other session attached, that run reports every
\* tracked button as released, bit 1 being no bit of JOYCON_BUTTONS_LEFT, and
\* reports the sticks of that InputReport.
C7_ReportTwoEmitsNoButton ==
    [][(SyncHandler /\ EndToEndReport(TheSession, 2))
          => /\ emitted'.keys = {}
             /\ emitted'.abs[1] = 255 /\ emitted'.abs[2] = 256]_vars

\* C7 witness: sync_handler ran after the merge of that report (the sticks
\* it reported are the report's), the status request having been written.
C7_Witness ==
    /\ EndToEndReport(TheSession, 2)
    /\ tx[TheSession] = "controller_status"
    /\ emitted.synced /\ emitted.keys = {}
    /\ emitted.abs[1] = 255 /\ emitted.abs[2] = 256


(***************************************************************************)
(* SpecRegistry: the two connections are registered and torn down by the   *)
(* host in any order; any step of a probe may fail. The works and the      *)
(* receive callback of the first connection run at any time, before and    *)
(* after its teardown, and so does sync_handler; the works of the second   *)
(* connection are not scheduled. The device answers handshakes only.       *)
(***************************************************************************)
NextRegistry ==
    \/ \E s \in Serdevs : \E fault \in ProbeFaults : Probe(s, fault)
    \/ \E s \in Serdevs : Remove(s)
    \/ TimeoutStep(TheSession)
    \/ InputStep(TheSession)
    \/ Receive(TheSession, AckFrame)
    \/ SyncHandler

SpecRegistry == Init /\ [][NextRegistry]_vars


\* C2 as claimed: no run of timeout_handler or input_handler reads or writes
\* a session that joycon_serdev_remove has freed.
C2_TeardownStopsPeriodicTasks ==
    \A s \in Serdevs : <<s, "timeout">> \notin uaf /\ <<s, "input">> \notin uaf

\* C3 as claimed: joycon_serdev_remove leaves the shared sink registered, and
\* no run of sync_handler reports to a sink that is no longer registered.
C3_SinkSurvivesTeardown ==
    /\ input_dev # "unregistered"
    /\ "sync" \notin sink_uaf


(***************************************************************************)
(* SpecMalformed: one connection whose line delivers damaged frames: each  *)
(* of a HandshakeAck, an IdentifierReply and an InputReport with a wrong   *)
(* magic byte, or with a total_size that disagrees with the delivered      *)
(* length, next to the intact ones. sync_handler reports what was merged.  *)
(***************************************************************************)
\* The frame with the first byte of its magic damaged.
BadMagic(buf) == [buf EXCEPT ![1] = 0]

\* The frame with a total_size one larger than what was delivered.
BadLength(buf) == [buf EXCEPT ![4] = buf[4] + 1]

\* magic and total_size as the device and the command constants have them:
\* 19 01 03, then the number of bytes that follow the 5-byte initial part.
WellFormed(buf) ==
    /\ Len(buf) >= SIZEOF_INITIAL
    /\ SubSeq(buf, 1, 3) = <<25, 1, 3>>
    /\ Len(buf) = SIZEOF_INITIAL + Byte(buf, 3)

IntactFrames ==
    {AckFrame, IdFrame(IdPayload(MAC_RIGHT)), InputFrame(16777215, StickEdge)}

MalformedFrames ==
    {BadMagic(f) : f \in IntactFrames} \cup {BadLength(f) : f \in IntactFrames}

NextMalformed ==
    \/ Probe(TheSession, "none")
    \/ \E buf \in IntactFrames \cup MalformedFrames : Receive(TheSession, buf)
    \/ MergeStep(TheSession)
    \/ SyncHandler

SpecMalformed == Init /\ [][NextMalformed]_vars

\* C11 as claimed: the receive callback, handed a frame with a wrong magic or
\* a total_size that does not match the delivered length, changes nothing of
\* the session (flags, side, counters, identifier, local buttons) and nothing
\* of the aggregate, whatever the command byte of the frame.
C11_MalformedFrameIsDropped ==
    [][\A s \in Serdevs : \A buf \in IntactFrames \cup MalformedFrames :
          (Receive(s, buf) /\ ~WellFormed(buf))
             => UNCHANGED <<session_vars, global_vars>>]_vars


(***************************************************************************)
(* SpecFair: Spec with the workqueue's guarantee that a work which can     *)
(* take its next step takes it. Nothing obliges the device to answer or a  *)
(* transport write to fail.                                                *)
(***************************************************************************)
SpecFair == Spec /\ WF_vars(TimeoutStep(TheSession))

\* C12 as claimed: every run of timeout_handler that enters the recovery
\* branch comes to its re-arm step and is queued again, also when no
\* HandshakeAck ever arrives and every write succeeds.
C12_TickReachesRearm ==
    \A s \in Serdevs : (tpc[s] = "L209") ~> (tpc[s] = "queued")


\* C13: while no run of timeout_handler is in progress, timeout_samples is at
\* most num_samples, however the load and the store of num_samples++ in the
\* receive callback interleave with the reset of line 232 and the assignment
\* of line 239 (counters within MaxSamples, far from the range of int).
C13_LastCheckedAtMostCounter ==
    \A s \in Serdevs :
       tpc[s] \in {"none", "queued"} => timeout_samples[s] <= num_samples[s]

\* C13 witness: a run reset the counter and ended while the receive callback
\* was between the load and the store of its increment.
C13_Witness ==
    /\ tpc[TheSession] = "queued"
    /\ tick[TheSession].why = "stall"
    /\ rpc[TheSession] = "L316s" /\ rtmp[TheSession] >= 1
    /\ num_samples[TheSession] = 0 /\ timeout_samples[TheSession] = 0
    /\ initialized[TheSession]


\* C14 as claimed: a run of timeout_handler in which a transport write failed
\* (magic-sync, handshake-request, read-identifier, unk1, unk2 or unk3) comes
\* to its end with initialized still false.
C14_FailedWriteLeavesUninitialized ==
    \A s \in Serdevs : (tick[s].failed /\ tpc[s] = "L239") => ~initialized[s]


\* C15 as claimed: after a probe that failed to create or register the sink
\* no sink is recorded: the global input_dev never points to a sink that was
\* freed, so a later probe creates a fresh one and no session copies a
\* pointer to a freed sink into joycon->input_dev.
C15_FailedSinkIsForgotten ==
    /\ input_dev # "freed"
    /\ \A s \in Serdevs :
          (mem[s] = "live" /\ probe_ret[s] = "0") => sync_work = "queued"


\* C16 as claimed: whenever input_handler hands controller_status to the
\* transport (line 251), the session's initialized flag is true at that
\* moment, however its steps interleave with a run of timeout_handler.
C16_StatusWriteOnlyWhileInitialized ==
    [][\A s \in Serdevs : I251(s) => initialized[s]]_vars


\* The driver keeps no record of the order in which sessions were identified:
\* the start of SpecMerge is what either order leaves behind. Taking the run
\* in which the first connection was identified first:
EarlierIdentified == TheSession

\* C17 as claimed: when both sessions have the same side, the one identified
\* later is the occupant of that side, and no step of a merge of the earlier
\* session's InputReports changes the aggregate buttons or sticks.
C17_EarlierSessionStopsContributing ==
    [][\A later \in Serdevs \ {EarlierIdentified} :
          (button_set[later] = button_set[EarlierIdentified]
             /\ MergeStep(EarlierIdentified))
          => UNCHANGED global_vars]_vars


\* The session is between mutex_lock (line 290) and mutex_unlock (line 313).
InMerge(s) == rpc[s] \in {"L293", "L294", "L298", "L299", "L304"}

\* The bits of its mask that a side shares with no other side.
OwnBits(s) ==
    IF IsLeft(s) THEN BitAndNot(JOYCON_BUTTONS_LEFT, JOYCON_BUTTONS_RIGHT)
                 ELSE BitAndNot(JOYCON_BUTTONS_RIGHT, JOYCON_BUTTONS_LEFT)

\* The session is the only one of its side and has been handed an InputReport.
SoleReporter(s) ==
    /\ rx[s].kind = "InputReport"
    /\ \A r \in Serdevs \ {s} : button_set[r] # button_set[s]

\* C18: a run of sync_handler happens while no merge is between its lock and
\* its unlock, reports the 24 buttons and the 4 axes of the aggregate as it
\* then is, and flushes once; what it reports for a side with one session is
\* that session's last report as a whole: its buttons (on the bits the side
\* shares with no other) together with the stick of the same report.
C18_SyncEmitsWholeMerges ==
    [][SyncHandler =>
          /\ \A s \in Serdevs : ~InMerge(s)
          /\ emitted' = [keys |-> KeysDown(buttons),
                         abs |-> <<stick_lx, stick_ly, stick_rx, stick_ry>>,
                         synced |-> TRUE]
          /\ \A s \in Serdevs : SoleReporter(s) =>
                LET p(i) == Byte(rbuf[s], SIZEOF_HEADER + i)
                IN  /\ KeysDown(BitAnd(buttons, OwnBits(s)))
                         = KeysDown(BitAnd(jbuttons[s], OwnBits(s)))
                    /\ IsLeft(s) => /\ emitted'.abs[1] = StickX(p(6), p(7))
                                    /\ emitted'.abs[2] = StickY(p(8))
                    /\ IsRight(s) => /\ emitted'.abs[3] = StickX(p(9), p(10))
                                     /\ emitted'.abs[4] = StickY(p(11))]_vars

\* C18 witness: sync_handler reported the merged reports of a left and a right
\* session, buttons pressed, while the next merge already holds the lock.
C18_Witness ==
    /\ emitted.synced
    /\ emitted.keys = KeysDown(buttons) /\ emitted.keys # {}
    /\ emitted.abs = <<stick_lx, stick_ly, stick_rx, stick_ry>>
    /\ \A s \in Serdevs : SoleReporter(s)
    /\ \E s \in Serdevs : InMerge(s)


\* C19 as claimed: the four stick values of the aggregate, and the four axis
\* values sync_handler reports, are always within 0..255.
C19_SticksAreBytes ==
    /\ \A v \in {stick_lx, stick_ly, stick_rx, stick_ry} : v \in 0..255
    /\ \A k \in 1..4 : emitted.abs[k] \in 0..255


\* C20 as claimed: the copy of an IdentifierReply's identifier writes
\* positions 0..5 of joycon->mac and no position outside them.
C20_MacCopyStaysInBounds ==
    \A s \in Serdevs : mac_oob[s] = {}

====
